---- MODULE Spec2Model ----
(***************************************************************************)
(* Model of custom_components/elero/cover.py: the TravelCalculator (time   *)
(* based position estimate) and the EleroCover entity (host commands, host *)
(* poll, transmitter status callback).                                     *)
(*                                                                         *)
(* Python's None is the empty tuple and a present value v is <<v>>, so     *)
(* that an optional field can be compared without mixing types.            *)
(* time.time() is the variable now, advanced by Tick; times are whole      *)
(* seconds.  The arithmetic of _calculate_position is Python's: IEEE 754   *)
(* doubles (53 bit mantissa, round to nearest, ties to even), and int()    *)
(* truncates toward zero.  TLC's integers have 32 bits, so a mantissa is   *)
(* kept in limbs of 20 bits.                                               *)
(***************************************************************************)
EXTENDS Integers, Sequences, FiniteSets

VARIABLES
    travel_calculator,  \* the TravelCalculator object (a record of its fields)
    now,                \* time.time()
    position,           \* EleroCover._position
    is_opening_,        \* EleroCover._is_opening
    is_closing_,        \* EleroCover._is_closing
    closed,             \* EleroCover._closed
    tilt_position,      \* EleroCover._tilt_position
    state,              \* EleroCover._state
    elero_state,        \* EleroCover._elero_state
    sent,               \* commands handed to the transmitter, in order
    last,               \* the last call made on the object: its name, its
                        \* argument, position_confirmed before the call and
                        \* whether the call raised
    writer,             \* a call on the calculator that another thread is
                        \* in the middle of: its field writes still to come
    reader              \* what a current_position() just made on a second
                        \* thread returned (empty when nothing was just read)

vars == <<travel_calculator, now, position, is_opening_, is_closing_, closed,
          tilt_position, state, elero_state, sent, last, writer, reader>>

raceVars == <<writer, reader>>

coverVars == <<position, is_opening_, is_closing_, closed, tilt_position,
               state, elero_state, sent>>

---------------------------------------------------------------------------
(* Bounds of the model *)

\* the clock stops advancing at MaxTime seconds after construction
MaxTime == 40

\* the amounts by which one Tick advances the clock
TickSteps == {10}

\* the positions a caller passes in
Positions == {0, 25, 50, 67, 100}

\* the positions the host passes to set_cover_position
CoverPositions == {50}

\* the configured (travel_time_down, travel_time_up) pairs of a calculator
TravelTimes == {<<40, 30>>, <<15, 15>>}

\* the (travel_time_down, travel_time_up) pairs and the positions that
\* calculate_travel_time is applied to
TTTravelTimes == {<<40, 30>>, <<15, 15>>, <<5, 5>>, <<1, 7>>}

TTPositions == 0..100

\* the positions passed in while a second thread reads
RacePositions == {25, 50}

\* the configured (travel_time_down, travel_time_up) pairs of a cover
CoverTravelTimes == {<<40, 30>>}

---------------------------------------------------------------------------
(* Python values *)

None == <<>>

Some(v) == <<v>>

Val(o) == o[1]

Abs(x) == IF x < 0 THEN -x ELSE x

---------------------------------------------------------------------------
(* Python floats *)

\* A natural number of up to 80 bits is <<a3, a2, a1, a0>>, four limbs of 20 bits
Limb == 2^20

RECURSIVE BitLen(_)
BitLen(n) == IF n = 0 THEN 0 ELSE 1 + BitLen(n \div 2)

BigOfInt(n) == <<0, 0, n \div Limb, n % Limb>>

BigIsZero(a) == a = <<0, 0, 0, 0>>

BigBitLen(a) ==
    IF a[1] /= 0 THEN 60 + BitLen(a[1])
    ELSE IF a[2] /= 0 THEN 40 + BitLen(a[2])
    ELSE IF a[3] /= 0 THEN 20 + BitLen(a[3])
    ELSE BitLen(a[4])

BigLess(a, b) ==
    IF a[1] /= b[1] THEN a[1] < b[1]
    ELSE IF a[2] /= b[2] THEN a[2] < b[2]
    ELSE IF a[3] /= b[3] THEN a[3] < b[3]
    ELSE a[4] < b[4]

\* limbs that may have grown past 20 bits (or below 0 by a borrow) put back in range
BigCarry(a) ==
    LET c0 == a[4] \div Limb
        s1 == a[3] + c0
        c1 == s1 \div Limb
        s2 == a[2] + c1
        c2 == s2 \div Limb
    IN  <<a[1] + c2, s2 % Limb, s1 % Limb, a[4] % Limb>>

BigAdd(a, b) == BigCarry(<<a[1] + b[1], a[2] + b[2], a[3] + b[3], a[4] + b[4]>>)

\* a - b for a >= b
BigSub(a, b) == BigCarry(<<a[1] - b[1], a[2] - b[2], a[3] - b[3], a[4] - b[4]>>)

\* a * k for a small k (k < 2^10)
BigMulSmall(a, k) == BigCarry(<<a[1] * k, a[2] * k, a[3] * k, a[4] * k>>)

\* a * 2^n, 0 <= n
RECURSIVE BigShl(_, _)
BigShl(a, n) ==
    IF n = 0 THEN a
    ELSE IF n >= 20 THEN BigShl(<<a[2], a[3], a[4], 0>>, n - 20)
    ELSE IF n > 10 THEN BigShl(BigMulSmall(a, 2^10), n - 10)
    ELSE BigMulSmall(a, 2^n)

\* <<floor(a / 2^n), a mod 2^n /= 0>>
RECURSIVE BigShr(_, _, _)
BigShr(a, n, lost) ==
    IF n = 0 THEN <<a, lost>>
    ELSE IF n >= 20 THEN BigShr(<<0, a[1], a[2], a[3]>>, n - 20, lost \/ a[4] /= 0)
    ELSE
      LET p == 2^n
          q == 2^(20 - n)
      IN  << << a[1] \div p,
                (a[1] % p) * q + a[2] \div p,
                (a[2] % p) * q + a[3] \div p,
                (a[3] % p) * q + a[4] \div p >>,
             lost \/ a[4] % p /= 0 >>

\* A double is [sign, m, x]: sign * m * 2^x with m of exactly 53 bits, or m zero.
F64Zero == [sign |-> 1, m |-> <<0, 0, 0, 0>>, x |-> 0]

\* sign * a * 2^x (plus a little more if sticky) rounded to nearest, ties to even
F64Round(sign, a, x, sticky) ==
    IF BigIsZero(a) THEN F64Zero
    ELSE
      LET n == BigBitLen(a)
      IN  IF n <= 53
          THEN [sign |-> sign, m |-> BigShl(a, 53 - n), x |-> x - (53 - n)]
          ELSE
            LET keep == BigShr(a, n - 53, FALSE)[1]
                rest == BigShr(a, n - 54, sticky)
                half == rest[1][4] % 2 = 1
                up == half /\ (rest[2] \/ keep[4] % 2 = 1)
                m1 == IF up THEN BigAdd(keep, BigOfInt(1)) ELSE keep
            IN  IF BigBitLen(m1) = 54
                THEN [sign |-> sign, m |-> BigShr(m1, 1, FALSE)[1], x |-> x + (n - 53) + 1]
                ELSE [sign |-> sign, m |-> m1, x |-> x + (n - 53)]

F64OfInt(i) == F64Round(IF i < 0 THEN -1 ELSE 1, BigOfInt(Abs(i)), 0, FALSE)

\* q + floor(rem / d) with the remainder, for rem < 4 * d
RECURSIVE DivFix(_, _, _)
DivFix(rem, d, q) ==
    IF BigLess(rem, d) THEN <<q, rem>> ELSE DivFix(BigSub(rem, d), d, q + 1)

\* the next 10 quotient bits of rem / d, for rem < d and d of exactly 53 bits:
\* <<floor(rem * 2^10 / d), rem * 2^10 mod d>>.  The digit is first estimated
\* from the leading limbs (never too large, at most 1 too small).
DivDigit(rem, d) ==
    LET est == (rem[2] * 1024) \div (d[2] + 1)
    IN  DivFix(BigSub(BigMulSmall(rem, 1024), BigMulSmall(d, est)), d, est)

\* a / b for doubles a, b with b not zero
F64Div(a, b) ==
    IF BigIsZero(a.m) THEN F64Zero
    ELSE
      \* a.m / b.m lies in (1/2, 2): the integer bit, then 60 more bits
      LET c0 == DivFix(a.m, b.m, 0)
          c1 == DivDigit(c0[2], b.m)
          c2 == DivDigit(c1[2], b.m)
          c3 == DivDigit(c2[2], b.m)
          c4 == DivDigit(c3[2], b.m)
          c5 == DivDigit(c4[2], b.m)
          c6 == DivDigit(c5[2], b.m)
      IN  F64Round(a.sign * b.sign,
                   <<c0[1], c1[1] * 1024 + c2[1], c3[1] * 1024 + c4[1],
                     c5[1] * 1024 + c6[1]>>,
                   a.x - b.x - 60, ~BigIsZero(c6[2]))

\* k * b with the sign of k dropped
F64MulIntUnsigned(k, b) ==
    IF k = 0 \/ BigIsZero(b.m) THEN F64Zero
    ELSE F64Round(b.sign, BigMulSmall(b.m, Abs(k)), b.x, FALSE)

\* k * b for an int k, |k| < 2^10 (the int converts to a double exactly)
F64MulInt(k, b) ==
    IF k = 0 \/ BigIsZero(b.m) THEN F64Zero
    ELSE F64Round((IF k < 0 THEN -1 ELSE 1) * b.sign, BigMulSmall(b.m, Abs(k)),
                  b.x, FALSE)

F64Add(a, b) ==
    IF BigIsZero(a.m) THEN b
    ELSE IF BigIsZero(b.m) THEN a
    ELSE
      LET x == IF a.x < b.x THEN a.x ELSE b.x
          am == BigShl(a.m, a.x - x)
          bm == BigShl(b.m, b.x - x)
      IN  IF a.sign = b.sign THEN F64Round(a.sign, BigAdd(am, bm), x, FALSE)
          ELSE IF BigLess(am, bm) THEN F64Round(b.sign, BigSub(bm, am), x, FALSE)
          ELSE F64Round(a.sign, BigSub(am, bm), x, FALSE)

\* int(a): truncation toward zero, for |a| < 2^20
F64ToInt(a) ==
    IF BigIsZero(a.m) THEN 0
    ELSE IF a.x >= 0 THEN a.sign * BigShl(a.m, a.x)[4]
    ELSE a.sign * BigShr(a.m, -a.x, FALSE)[1][4]

---------------------------------------------------------------------------
(* Constants of cover.py *)

POSITION_CLOSED == 0

POSITION_INTERMEDIATE == 75

POSITION_OPEN == 100

POSITION_TILT_VENTILATION == 25

POSITION_UNDEFINED == 50

STATE_INTERMEDIATE == "intermediate"

STATE_TILT_VENTILATION == "ventilation/tilt"

STATE_UNDEFINED == "undefined"

STATE_CLOSED == "closed"

STATE_CLOSING == "closing"

STATE_OPEN == "open"

STATE_OPENING == "opening"

STATE_UNKNOWN == "unknown"

DIRECTION_UP == "DIRECTION_UP"

DIRECTION_DOWN == "DIRECTION_DOWN"

STOPPED == "STOPPED"

---------------------------------------------------------------------------
(* TravelCalculator *)

\* TravelCalculator.__init__
TravelCalculator(travel_time_down, travel_time_up) ==
    [ travel_direction |-> STOPPED,
      travel_time_down |-> travel_time_down,
      travel_time_up |-> travel_time_up,
      last_known_position |-> None,
      last_known_position_timestamp |-> 0,
      position_confirmed |-> FALSE,
      travel_to_position |-> None,
      position_closed |-> 100,
      position_open |-> 0 ]

\* TravelCalculator.update_position
update_position(self, p, t) ==
    [ self EXCEPT
        !.last_known_position = Some(p),
        !.last_known_position_timestamp = t,
        !.position_confirmed =
            IF Some(p) = self.travel_to_position THEN TRUE ELSE @ ]

\* set_position that forgets to record the target before confirming
set_position_without_target(self, p, t) == update_position(self, p, t)

\* TravelCalculator.set_position
set_position(self, p, t) ==
    update_position([self EXCEPT !.travel_to_position = Some(p)], p, t)

\* calculate_travel_time that takes travel_time_down in both directions
calculate_travel_time_one_way(self, from_position, to_position) ==
    F64Div(F64OfInt(self.travel_time_down * Abs(to_position - from_position)),
           F64OfInt(self.position_closed))

\* TravelCalculator.calculate_travel_time (int * int / int: a float)
calculate_travel_time(self, from_position, to_position) ==
    LET travel_range == to_position - from_position
        travel_time_full ==
            IF travel_range > 0 THEN self.travel_time_down
                                ELSE self.travel_time_up
    IN  F64Div(F64OfInt(travel_time_full * Abs(travel_range)),
               F64OfInt(self.position_closed))

\* TravelCalculator._calculate_position, from the remaining_travel_time it
\* has computed on
interpolate(self, t, remaining_travel_time) ==
    IF BigIsZero(remaining_travel_time.m)
    THEN self.last_known_position
    ELSE
      LET lkp == Val(self.last_known_position)
          relative_position == Val(self.travel_to_position) - lkp
          progress ==
              F64Div(F64OfInt(t - self.last_known_position_timestamp),
                     remaining_travel_time)
      IN  Some(F64ToInt(F64Add(F64OfInt(lkp),
                               F64MulInt(relative_position, progress))))

\* _calculate_position that answers 0 while no position is known
calculate_position_default_zero(self, t) ==
    IF self.last_known_position = None
    THEN Some(0)
    ELSE IF self.travel_to_position = None
    THEN self.last_known_position
    ELSE interpolate(self, t,
                     calculate_travel_time(self, Val(self.last_known_position),
                                           Val(self.travel_to_position)))

\* TravelCalculator._calculate_position
calculate_position(self, t) ==
    IF self.travel_to_position = None \/ self.last_known_position = None
    THEN self.last_known_position
    ELSE interpolate(self, t,
                     calculate_travel_time(self, Val(self.last_known_position),
                                           Val(self.travel_to_position)))

\* TravelCalculator.current_position
current_position(self, t) ==
    IF ~self.position_confirmed
    THEN calculate_position(self, t)
    ELSE self.last_known_position

\* stop that pins the position and leaves the target of the travel in place
stop_at_keeping_target(self, stop_position) ==
    IF stop_position = None
    THEN self
    ELSE [ self EXCEPT
             !.last_known_position = stop_position,
             !.position_confirmed = FALSE,
             !.travel_direction = STOPPED ]

\* TravelCalculator.stop, from the stop_position it has read
stop_at(self, stop_position) ==
    IF stop_position = None
    THEN self
    ELSE [ self EXCEPT
             !.last_known_position = stop_position,
             !.travel_to_position = stop_position,
             !.position_confirmed = FALSE,
             !.travel_direction = STOPPED ]

\* TravelCalculator.stop
stop(self, t) == stop_at(self, current_position(self, t))

\* start_travel that keeps the timestamp of the travel it supersedes
travel_from_old_timestamp(s, target, t) ==
    [ s EXCEPT
        !.travel_to_position = Some(target),
        !.position_confirmed = FALSE,
        !.travel_direction =
            IF target > Val(s.last_known_position)
            THEN DIRECTION_DOWN ELSE DIRECTION_UP ]

\* TravelCalculator.start_travel, after its call of stop() has left s
travel_from(s, target, t) ==
    [ s EXCEPT
        !.last_known_position_timestamp = t,
        !.travel_to_position = Some(target),
        !.position_confirmed = FALSE,
        !.travel_direction =
            IF target > Val(s.last_known_position)
            THEN DIRECTION_DOWN ELSE DIRECTION_UP ]

\* start_travel that, with no position known, records the target and waits
start_travel_cold_waits(self, target, t) ==
    IF self.last_known_position = None
    THEN [ self EXCEPT
             !.travel_to_position = Some(target),
             !.last_known_position_timestamp = t ]
    ELSE travel_from(stop(self, t), target, t)

\* TravelCalculator.start_travel
start_travel(self, target, t) ==
    IF self.last_known_position = None
    THEN set_position(self, target, t)
    ELSE travel_from(stop(self, t), target, t)

---------------------------------------------------------------------------
(* The record of the last call *)

Called(op, arg) ==
    [ op |-> op, arg |-> arg,
      was_confirmed |-> travel_calculator.position_confirmed,
      raised |-> FALSE ]

---------------------------------------------------------------------------
(* The clock *)

Tick ==
    /\ \E d \in TickSteps :
          /\ now + d <= MaxTime
          /\ now' = now + d
    /\ UNCHANGED <<travel_calculator, coverVars, last, raceVars>>

---------------------------------------------------------------------------
(* The TravelCalculator on its own, driven through its public methods *)

InitTC ==
    /\ \E tt \in TravelTimes :
          travel_calculator = TravelCalculator(tt[1], tt[2])
    /\ now = 0
    /\ position = None
    /\ is_opening_ = None
    /\ is_closing_ = None
    /\ closed = None
    /\ tilt_position = None
    /\ state = None
    /\ elero_state = None
    /\ sent = <<>>
    /\ last = [ op |-> "__init__", arg |-> None, was_confirmed |-> FALSE,
               raised |-> FALSE ]
    /\ writer = [pending |-> <<>>, before |-> travel_calculator,
                 after |-> travel_calculator]
    /\ reader = <<>>

TC_set_position ==
    \E p \in Positions :
        /\ travel_calculator' = set_position(travel_calculator, p, now)
        /\ last' = Called("set_position", Some(p))
        /\ UNCHANGED <<now, coverVars, raceVars>>

TC_update_position ==
    \E p \in Positions :
        /\ travel_calculator' = update_position(travel_calculator, p, now)
        /\ last' = Called("update_position", Some(p))
        /\ UNCHANGED <<now, coverVars, raceVars>>

TC_stop ==
    /\ travel_calculator' = stop(travel_calculator, now)
    /\ last' = Called("stop", None)
    /\ UNCHANGED <<now, coverVars, raceVars>>

TC_start_travel ==
    \E p \in Positions :
        /\ travel_calculator' = start_travel(travel_calculator, p, now)
        /\ last' = Called("start_travel", Some(p))
        /\ UNCHANGED <<now, coverVars, raceVars>>

NextTC ==
    \/ TC_set_position
    \/ TC_update_position
    \/ TC_stop
    \/ TC_start_travel
    \/ Tick

SpecTC == InitTC /\ [][NextTC]_vars

---------------------------------------------------------------------------
(* calculate_travel_time on its own: one call, on inputs drawn at the start *)

InitTT ==
    /\ \E tt \in TTTravelTimes :
          travel_calculator = TravelCalculator(tt[1], tt[2])
    /\ \E from_position, to_position \in TTPositions :
          last = [ op |-> "__init__", arg |-> <<from_position, to_position>>,
                   was_confirmed |-> FALSE, raised |-> FALSE ]
    /\ now = 0
    /\ position = None
    /\ is_opening_ = None
    /\ is_closing_ = None
    /\ closed = None
    /\ tilt_position = None
    /\ state = None
    /\ elero_state = None
    /\ sent = <<>>
    /\ writer = [pending |-> <<>>, before |-> travel_calculator,
                 after |-> travel_calculator]
    /\ reader = <<>>

TT_calculate_travel_time ==
    /\ last.op = "__init__"
    /\ last' = [ op |-> "calculate_travel_time", arg |-> last.arg,
                 was_confirmed |-> FALSE, raised |-> FALSE,
                 result |-> calculate_travel_time(travel_calculator,
                                                  last.arg[1], last.arg[2]) ]
    /\ UNCHANGED <<travel_calculator, now, coverVars, raceVars>>

NextTT == TT_calculate_travel_time

SpecTT == InitTT /\ [][NextTT]_vars

---------------------------------------------------------------------------
(* Status codes of the transmitter (imported from custom_components.elero) *)

INFO_NO_INFORMATION == "INFO_NO_INFORMATION"

INFO_TOP_POSITION_STOP == "INFO_TOP_POSITION_STOP"

INFO_BOTTOM_POSITION_STOP == "INFO_BOTTOM_POSITION_STOP"

INFO_INTERMEDIATE_POSITION_STOP == "INFO_INTERMEDIATE_POSITION_STOP"

INFO_TILT_VENTILATION_POS_STOP == "INFO_TILT_VENTILATION_POS_STOP"

INFO_START_TO_MOVE_UP == "INFO_START_TO_MOVE_UP"

INFO_START_TO_MOVE_DOWN == "INFO_START_TO_MOVE_DOWN"

INFO_MOVING_UP == "INFO_MOVING_UP"

INFO_MOVING_DOWN == "INFO_MOVING_DOWN"

INFO_STOPPED_IN_UNDEFINED_POSITION == "INFO_STOPPED_IN_UNDEFINED_POSITION"

INFO_TOP_POS_STOP_WICH_TILT_POS == "INFO_TOP_POS_STOP_WICH_TILT_POS"

INFO_BOTTOM_POS_STOP_WICH_INT_POS == "INFO_BOTTOM_POS_STOP_WICH_INT_POS"

INFO_BLOCKING == "INFO_BLOCKING"

INFO_OVERHEATED == "INFO_OVERHEATED"

INFO_TIMEOUT == "INFO_TIMEOUT"

INFO_SWITCHING_DEVICE_SWITCHED_ON == "INFO_SWITCHING_DEVICE_SWITCHED_ON"

INFO_SWITCHING_DEVICE_SWITCHED_OFF == "INFO_SWITCHING_DEVICE_SWITCHED_OFF"

\* a status the handler has no branch for
INFO_UNHANDLED == "INFO_UNHANDLED"

StatusCodes ==
    { INFO_NO_INFORMATION, INFO_TOP_POSITION_STOP, INFO_BOTTOM_POSITION_STOP,
      INFO_INTERMEDIATE_POSITION_STOP, INFO_TILT_VENTILATION_POS_STOP,
      INFO_START_TO_MOVE_UP, INFO_START_TO_MOVE_DOWN, INFO_MOVING_UP,
      INFO_MOVING_DOWN, INFO_STOPPED_IN_UNDEFINED_POSITION,
      INFO_TOP_POS_STOP_WICH_TILT_POS, INFO_BOTTOM_POS_STOP_WICH_INT_POS,
      INFO_BLOCKING, INFO_OVERHEATED, INFO_TIMEOUT,
      INFO_SWITCHING_DEVICE_SWITCHED_ON, INFO_SWITCHING_DEVICE_SWITCHED_OFF,
      INFO_UNHANDLED }

---------------------------------------------------------------------------
(* EleroCover *)

\* the fields set_states assigns, as one record
States(c, closing, opening, st, pos, tilt) ==
    [ closed |-> c, is_closing |-> closing, is_opening |-> opening,
      state |-> st, position |-> pos, tilt_position |-> tilt ]

\* The response of the transmitter is a dict: the set of its keys and the
\* value under "status".
Response(status) == [keys |-> {"status"}, status |-> status]

\* a response that has no "status" key
ResponseWithoutStatus == [keys |-> {}, status |-> None]

\* the responses the callback is called with: every status code, a status of
\* None, and no status at all
Responses ==
    {Response(Some(c)) : c \in StatusCodes}
        \cup {Response(None), ResponseWithoutStatus}

\* response.get("status")
get_status(response) ==
    IF "status" \in response.keys THEN response.status ELSE None

\* set_states raising in every branch that reads self._response["status"]
set_states_raises_on_read(response) ==
    get_status(response) \in
        { Some(INFO_BLOCKING), Some(INFO_OVERHEATED), Some(INFO_TIMEOUT),
          Some(INFO_UNHANDLED), None }

\* EleroCover.set_states: the branches that read self._response["status"]
\* after their assignments (the faults and the else branch) raise KeyError
\* when the response has no such key
set_states_raises(response) ==
    LET status == get_status(response)
        concrete == { Some(c) : c \in StatusCodes \ {INFO_BLOCKING, INFO_OVERHEATED,
                                                      INFO_TIMEOUT, INFO_UNHANDLED} }
    IN  status \notin concrete /\ "status" \notin response.keys

\* EleroCover.set_states: the assignments of the branch taken, for status the
\* value of self._elero_state (None when the response has no status)
set_states(status) ==
    IF status = Some(INFO_NO_INFORMATION) THEN
        States(None, None, None, Some(STATE_UNKNOWN), None, None)
    ELSE IF status = Some(INFO_TOP_POSITION_STOP) THEN
        States(Some(FALSE), Some(FALSE), Some(FALSE), Some(STATE_OPEN),
               Some(POSITION_OPEN), Some(POSITION_UNDEFINED))
    ELSE IF status = Some(INFO_BOTTOM_POSITION_STOP) THEN
        States(Some(TRUE), Some(FALSE), Some(FALSE), Some(STATE_CLOSED),
               Some(POSITION_CLOSED), Some(POSITION_UNDEFINED))
    ELSE IF status = Some(INFO_INTERMEDIATE_POSITION_STOP) THEN
        States(Some(FALSE), Some(FALSE), Some(FALSE), Some(STATE_INTERMEDIATE),
               Some(POSITION_INTERMEDIATE), Some(POSITION_INTERMEDIATE))
    ELSE IF status = Some(INFO_TILT_VENTILATION_POS_STOP) THEN
        States(Some(FALSE), Some(FALSE), Some(FALSE), Some(STATE_TILT_VENTILATION),
               Some(POSITION_TILT_VENTILATION), Some(POSITION_TILT_VENTILATION))
    ELSE IF status = Some(INFO_START_TO_MOVE_UP) THEN
        States(Some(FALSE), Some(FALSE), Some(TRUE), Some(STATE_OPENING),
               Some(POSITION_UNDEFINED), Some(POSITION_UNDEFINED))
    ELSE IF status = Some(INFO_START_TO_MOVE_DOWN) THEN
        States(Some(FALSE), Some(TRUE), Some(FALSE), Some(STATE_CLOSING),
               Some(POSITION_UNDEFINED), Some(POSITION_UNDEFINED))
    ELSE IF status = Some(INFO_MOVING_UP) THEN
        States(Some(FALSE), Some(FALSE), Some(TRUE), Some(STATE_OPENING),
               Some(POSITION_UNDEFINED), Some(POSITION_UNDEFINED))
    ELSE IF status = Some(INFO_MOVING_DOWN) THEN
        States(Some(FALSE), Some(TRUE), Some(FALSE), Some(STATE_CLOSING),
               Some(POSITION_UNDEFINED), Some(POSITION_UNDEFINED))
    ELSE IF status = Some(INFO_STOPPED_IN_UNDEFINED_POSITION) THEN
        States(Some(FALSE), Some(FALSE), Some(FALSE), Some(STATE_UNDEFINED),
               Some(POSITION_UNDEFINED), Some(POSITION_UNDEFINED))
    ELSE IF status = Some(INFO_TOP_POS_STOP_WICH_TILT_POS) THEN
        States(Some(FALSE), Some(FALSE), Some(FALSE), Some(STATE_TILT_VENTILATION),
               Some(POSITION_TILT_VENTILATION), Some(POSITION_TILT_VENTILATION))
    ELSE IF status = Some(INFO_BOTTOM_POS_STOP_WICH_INT_POS) THEN
        States(Some(TRUE), Some(FALSE), Some(FALSE), Some(STATE_INTERMEDIATE),
               Some(POSITION_INTERMEDIATE), Some(POSITION_INTERMEDIATE))
    ELSE IF status \in {Some(INFO_BLOCKING), Some(INFO_OVERHEATED), Some(INFO_TIMEOUT)} THEN
        States(None, None, None, Some(STATE_UNKNOWN), None, None)
    ELSE IF status \in {Some(INFO_SWITCHING_DEVICE_SWITCHED_ON),
                        Some(INFO_SWITCHING_DEVICE_SWITCHED_OFF)} THEN
        States(None, None, None, Some(STATE_UNKNOWN), None, None)
    ELSE
        States(None, None, None, Some(STATE_UNKNOWN), None, None)

\* is_closed that compares with the other end of the slider
is_closed_at_open_end(pos) ==
    IF pos = None THEN None ELSE Some(Val(pos) = POSITION_OPEN)

\* EleroCover.is_closed (the property the host reads)
is_closed(pos) ==
    IF pos = None THEN None ELSE Some(Val(pos) = POSITION_CLOSED)

\* EleroCover.is_opening
is_opening(v) == v

\* EleroCover.is_closing
is_closing(v) == v

\* EleroCover.current_cover_position
current_cover_position(tc, t) == current_position(tc, t)

\* EleroCover.__init__
Init ==
    /\ \E tt \in CoverTravelTimes :
          travel_calculator =
              set_position(TravelCalculator(tt[1], tt[2]), POSITION_CLOSED, 0)
    /\ now = 0
    /\ position = Some(POSITION_CLOSED)
    /\ is_opening_ = None
    /\ is_closing_ = None
    /\ closed = None
    /\ tilt_position = None
    /\ state = None
    /\ elero_state = None
    /\ sent = <<>>
    /\ last = [ op |-> "__init__", arg |-> None, was_confirmed |-> FALSE,
               raised |-> FALSE ]
    /\ writer = [pending |-> <<>>, before |-> travel_calculator,
                 after |-> travel_calculator]
    /\ reader = <<>>

\* EleroCover.set_cover_position
set_cover_position ==
    \E p \in CoverPositions :
        /\ travel_calculator' = start_travel(travel_calculator, p, now)
        /\ last' = Called("set_cover_position", Some(p))
        /\ UNCHANGED <<now, coverVars, raceVars>>

\* open_cover that leaves _is_closing as it is
open_cover_keeping_is_closing ==
    /\ travel_calculator' =
          start_travel(travel_calculator, travel_calculator.position_open, now)
    /\ is_opening_' = Some(TRUE)
    /\ last' = Called("open_cover", None)
    /\ UNCHANGED <<now, position, is_closing_, closed, tilt_position, state,
                   elero_state, sent, raceVars>>

\* EleroCover.open_cover
open_cover ==
    /\ travel_calculator' =
          start_travel(travel_calculator, travel_calculator.position_open, now)
    /\ is_opening_' = Some(TRUE)
    /\ is_closing_' = Some(FALSE)
    /\ last' = Called("open_cover", None)
    /\ UNCHANGED <<now, position, closed, tilt_position, state, elero_state, sent, raceVars>>

\* EleroCover.close_cover
close_cover ==
    /\ travel_calculator' =
          start_travel(travel_calculator, travel_calculator.position_closed, now)
    /\ is_closing_' = Some(TRUE)
    /\ is_opening_' = Some(FALSE)
    /\ last' = Called("close_cover", None)
    /\ UNCHANGED <<now, position, closed, tilt_position, state, elero_state, sent, raceVars>>

\* EleroCover.stop_cover
stop_cover ==
    /\ travel_calculator' = stop(travel_calculator, now)
    /\ is_opening_' = Some(FALSE)
    /\ is_closing_' = Some(FALSE)
    /\ last' = Called("stop_cover", None)
    /\ UNCHANGED <<now, position, closed, tilt_position, state, elero_state, sent, raceVars>>

\* EleroCover.update
update ==
    /\ position' = current_position(travel_calculator, now)
    /\ last' = Called("update", None)
    /\ UNCHANGED <<travel_calculator, now, is_opening_, is_closing_, closed,
                   tilt_position, state, elero_state, sent, raceVars>>

\* EleroCover.response_handler
response_handler ==
    \E response \in Responses :
        LET status == get_status(response)
            s == set_states(status)
        IN  /\ elero_state' = status
            /\ closed' = s.closed
            /\ is_closing_' = s.is_closing
            /\ is_opening_' = s.is_opening
            /\ state' = s.state
            /\ position' = s.position
            /\ tilt_position' = s.tilt_position
            /\ last' = [ Called("response_handler", status)
                           EXCEPT !.raised = set_states_raises(response) ]
            /\ UNCHANGED <<travel_calculator, now, sent, raceVars>>

Next ==
    \/ set_cover_position
    \/ open_cover
    \/ close_cover
    \/ stop_cover
    \/ update
    \/ response_handler
    \/ Tick

Spec == Init /\ [][Next]_vars

---------------------------------------------------------------------------
(* The TravelCalculator called from two threads: one thread is inside       *)
(* set_position, stop or start_travel, which assign the fields one by one   *)
(* and hold no lock, while a second thread calls current_position().        *)

\* self.<field> = value, for a write w = <<field, value>>
Write(self, w) == [self EXCEPT ![w[1]] = w[2]]

\* the field writes of set_position(p), in the order of the code; the test of
\* update_position (position == self._travel_to_position) follows the write
\* of that same value, so the thread finds it true
set_position_writes(p, t) ==
    << <<"travel_to_position", Some(p)>>,
       <<"last_known_position", Some(p)>>,
       <<"last_known_position_timestamp", t>>,
       <<"position_confirmed", TRUE>> >>

\* the field writes of stop(), from the stop_position it has read
stop_writes_at(stop_position) ==
    IF stop_position = None
    THEN <<>>
    ELSE << <<"last_known_position", stop_position>>,
            <<"travel_to_position", stop_position>>,
            <<"position_confirmed", FALSE>>,
            <<"travel_direction", STOPPED>> >>

\* the field writes of stop()
stop_writes(self, t) == stop_writes_at(current_position(self, t))

\* the field writes of start_travel(target) when a position is known: those of
\* its call of stop(), then its own
start_travel_writes_from(stop_position, target, t) ==
    stop_writes_at(stop_position) \o
    << <<"last_known_position_timestamp", t>>,
       <<"travel_to_position", Some(target)>>,
       <<"position_confirmed", FALSE>>,
       <<"travel_direction",
         IF target > Val(stop_position) THEN DIRECTION_DOWN ELSE DIRECTION_UP>> >>

\* the field writes of start_travel(target)
start_travel_writes(self, target, t) ==
    IF self.last_known_position = None
    THEN set_position_writes(target, t)
    ELSE start_travel_writes_from(current_position(self, t), target, t)

\* a thread enters a method: its writes are still to come
Entered(writes, after) ==
    /\ writer.pending = <<>>
    /\ writer' = [pending |-> writes, before |-> travel_calculator,
                  after |-> after]
    /\ reader' = <<>>
    /\ UNCHANGED <<travel_calculator, now, coverVars>>

Race_set_position ==
    \E p \in RacePositions :
        /\ Entered(set_position_writes(p, now),
                   set_position(travel_calculator, p, now))
        /\ last' = Called("set_position", Some(p))

Race_stop ==
    /\ Entered(stop_writes(travel_calculator, now),
               stop(travel_calculator, now))
    /\ last' = Called("stop", None)

Race_start_travel ==
    \E p \in RacePositions :
        /\ Entered(start_travel_writes(travel_calculator, p, now),
                   start_travel(travel_calculator, p, now))
        /\ last' = Called("start_travel", Some(p))

\* the thread inside the method makes its next field write
Race_write ==
    /\ writer.pending /= <<>>
    /\ travel_calculator' = Write(travel_calculator, Head(writer.pending))
    /\ writer' = [writer EXCEPT !.pending = Tail(@)]
    /\ reader' = <<>>
    /\ UNCHANGED <<now, coverVars, last>>

\* the second thread calls current_position()
Race_read ==
    /\ reader' = Some(current_position(travel_calculator, now))
    /\ UNCHANGED <<travel_calculator, now, coverVars, last, writer>>

\* time passes between calls (a call is over in far less than a second)
Race_tick == writer.pending = <<>> /\ Tick

NextRace ==
    \/ Race_set_position
    \/ Race_stop
    \/ Race_start_travel
    \/ Race_write
    \/ Race_read
    \/ Race_tick

SpecRace == InitTC /\ [][NextRace]_vars

---------------------------------------------------------------------------
(* Properties *)

\* what TravelCalculator.current_position() returns now
cur == current_position(travel_calculator, now)

\* seconds since last_known_position_timestamp
elapsed == now - travel_calculator.last_known_position_timestamp

\* n / d truncated toward zero, for d > 0, in exact arithmetic
Trunc(n, d) == IF n >= 0 THEN n \div d ELSE -((-n) \div d)

\* a start_travel to another position is in flight and nothing was called since
InFlight ==
    /\ last.op = "start_travel"
    /\ ~travel_calculator.position_confirmed
    /\ travel_calculator.last_known_position /= None
    /\ travel_calculator.last_known_position /= last.arg

\* 100 times the nominal travel time of the start_travel in flight
NominalTime100 ==
    LET o == Val(travel_calculator.last_known_position)
        target == Val(last.arg)
    IN  (IF target > o THEN travel_calculator.travel_time_down
                       ELSE travel_calculator.travel_time_up) * Abs(target - o)

\* C1: in every state reached through set_position, update_position,
\* start_travel, stop and elapsed time, current_position() is unknown or an
\* integer in [0,100], and so is the position a stop() or start_travel() pinned
\* as last_known_position.
C1_PositionInRange ==
    /\ cur = None \/ Val(cur) \in 0..100
    /\ \/ travel_calculator.last_known_position = None
       \/ Val(travel_calculator.last_known_position) \in 0..100

\* the statuses that define a concrete position
ConcreteStatuses ==
    { INFO_TOP_POSITION_STOP, INFO_BOTTOM_POSITION_STOP,
      INFO_INTERMEDIATE_POSITION_STOP, INFO_TILT_VENTILATION_POS_STOP }

\* C2: a call of the status handler with a status that defines a concrete
\* position also pushes that position into the calculator: when the call
\* returns, current_position() equals the position recorded from the status.
C2_StatusPushedToCalculator ==
    [][ (response_handler /\ last'.arg /= None
            /\ Val(last'.arg) \in ConcreteStatuses)
            => current_position(travel_calculator', now') = position' ]_vars

\* C3: the cover and the calculator use one axis: a poll made when
\* close_cover() has run for its full travel time leaves is_closed true, and a
\* poll made when open_cover() has run for its full travel time leaves
\* is_closed false.
C3_OneAxis ==
    [][ (/\ update
         /\ ~travel_calculator.position_confirmed
         /\ travel_calculator.travel_direction /= STOPPED)
            =>
        /\ (/\ travel_calculator.travel_to_position
                   = Some(travel_calculator.position_closed)
            /\ elapsed >= travel_calculator.travel_time_down)
               => is_closed(position') = Some(TRUE)
        /\ (/\ travel_calculator.travel_to_position
                   = Some(travel_calculator.position_open)
            /\ elapsed >= travel_calculator.travel_time_up)
               => is_closed(position') = Some(FALSE) ]_vars

\* C4: after set_position(p), and until the next call that changes the
\* calculator, position_confirmed is true and current_position() is exactly p.
C4_SetPositionExact ==
    last.op = "set_position"
        => /\ travel_calculator.position_confirmed
           /\ cur = last.arg

\* set_position(50) was called while a travel was under way, and time has
\* passed since
C4_Witness ==
    /\ last.op = "set_position"
    /\ last.arg = Some(50)
    /\ ~last.was_confirmed
    /\ travel_calculator.travel_direction /= STOPPED
    /\ elapsed >= 20

\* C5: e seconds into a start_travel(target) from a confirmed origin o, with
\* 0 <= e <= travel_time(o, target), current_position() is
\* o + (target - o) * e / travel_time(o, target) truncated toward zero (so 50
\* at 20 s and 100 at 40 s of a travel from 0 to 100 with travel_time_down 40).
C5_LinearEstimate ==
    (InFlight /\ last.was_confirmed /\ elapsed * 100 <= NominalTime100)
        =>
    LET o == Val(travel_calculator.last_known_position)
        target == Val(last.arg)
    IN  cur = Some(Trunc(o * NominalTime100 + (target - o) * elapsed * 100,
                         NominalTime100))

\* C6: while a start_travel(target) from o is in flight, an estimate taken
\* before nominal completion is at least as close to target as any earlier
\* one, and both lie between o and target inclusive.
C6_Monotonic ==
    (InFlight /\ elapsed * 100 < NominalTime100)
        =>
    LET o == Val(travel_calculator.last_known_position)
        target == Val(last.arg)
        lo == IF o < target THEN o ELSE target
        hi == IF o < target THEN target ELSE o
        p2 == Val(cur)
    IN  /\ p2 \in lo..hi
        /\ \A t1 \in travel_calculator.last_known_position_timestamp..(now - 1) :
              LET p1 == Val(current_position(travel_calculator, t1))
              IN  /\ p1 \in lo..hi
                  /\ Abs(target - p2) <= Abs(target - p1)

\* a travel upward (toward 0) is 20 s old and not yet complete
C6_Witness ==
    /\ InFlight
    /\ elapsed * 100 < NominalTime100
    /\ elapsed >= 20
    /\ travel_calculator.travel_direction = DIRECTION_UP
    /\ Val(cur) < Val(travel_calculator.last_known_position)

\* C7: update_position(p) sets position_confirmed to exactly (p ==
\* travel_to_position), whatever it was before the call.
C7_UpdateSetsConfirmed ==
    last.op = "update_position"
        => (travel_calculator.position_confirmed
                <=> (last.arg = travel_calculator.travel_to_position))

\* the host commands
Commands == {"open_cover", "close_cover", "stop_cover", "set_cover_position"}

\* C8: every host command (open, close, stop, set position) has, by the time
\* it returns, handed a command to the transmitter.
C8_CommandsForwarded ==
    last.op \in Commands => sent /= <<>>

\* C9: after the handler has handled 'bottom position reached', from any
\* prior state, the state is Closed, is_closed is true, is_opening and
\* is_closing are false and the recorded position is POSITION_CLOSED.
C9_BottomReached ==
    (last.op = "response_handler" /\ last.arg = Some(INFO_BOTTOM_POSITION_STOP))
        => /\ state = Some(STATE_CLOSED)
           /\ is_closed(position) = Some(TRUE)
           /\ is_opening(is_opening_) = Some(FALSE)
           /\ is_closing(is_closing_) = Some(FALSE)
           /\ position = Some(POSITION_CLOSED)

\* 'bottom position reached' arrived 20 s or more into a travel toward the
\* calculator's closed end that nothing has confirmed
C9_Witness ==
    /\ last.op = "response_handler"
    /\ last.arg = Some(INFO_BOTTOM_POSITION_STOP)
    /\ travel_calculator.travel_direction = DIRECTION_DOWN
    /\ ~travel_calculator.position_confirmed
    /\ elapsed >= 20

\* the is_closed column of the status table
TableIsClosed(status) ==
    IF status \in {INFO_BOTTOM_POSITION_STOP, INFO_BOTTOM_POS_STOP_WICH_INT_POS}
    THEN Some(TRUE)
    ELSE IF status \in { INFO_NO_INFORMATION, INFO_BLOCKING, INFO_OVERHEATED,
                         INFO_TIMEOUT, INFO_SWITCHING_DEVICE_SWITCHED_ON,
                         INFO_SWITCHING_DEVICE_SWITCHED_OFF, INFO_UNHANDLED }
    THEN None
    ELSE Some(FALSE)

\* C10: right after a status is handled, is_closed is the value of the status
\* table: true for 'bottom position reached' and 'bottom stop with
\* intermediate position', unknown for no information, faults, switching
\* device and unrecognized codes, false for every other status.
C10_IsClosedTable ==
    (last.op = "response_handler" /\ last.arg /= None)
        => is_closed(position) = TableIsClosed(Val(last.arg))

\* the fault statuses and the status no branch names
FaultOrUnrecognized ==
    {INFO_BLOCKING, INFO_OVERHEATED, INFO_TIMEOUT, INFO_UNHANDLED}

\* C11: after the handler has handled a fault status (blocking, overheated,
\* timeout) or an unrecognized status code, from any prior state, the state
\* is Unknown, the recorded position and tilt position are unknown,
\* is_opening, is_closing and is_closed are unknown, and the handler has not
\* raised.
C11_FaultDegrades ==
    (/\ last.op = "response_handler"
     /\ last.arg /= None
     /\ Val(last.arg) \in FaultOrUnrecognized)
        => /\ state = Some(STATE_UNKNOWN)
           /\ position = None
           /\ tilt_position = None
           /\ is_opening(is_opening_) = None
           /\ is_closing(is_closing_) = None
           /\ is_closed(position) = None
           /\ ~last.raised

\* an unrecognized status code arrived 20 s or more into a travel toward the
\* calculator's closed end
C11_Witness ==
    /\ last.op = "response_handler"
    /\ last.arg = Some(INFO_UNHANDLED)
    /\ travel_calculator.travel_direction = DIRECTION_DOWN
    /\ ~travel_calculator.position_confirmed
    /\ elapsed >= 20

\* C12: a host poll leaves the state derived from the status unchanged: the
\* recorded position, the tilt position, the state and is_opening, is_closing
\* and is_closed are after update() what they were before it.
C12_PollLeavesState ==
    [][ update
            => /\ UNCHANGED <<position, tilt_position, state, is_opening_,
                              is_closing_, closed>>
               /\ is_closed(position') = is_closed(position) ]_vars

\* when its last field write is made, the thread has left the calculator as
\* the method leaves it
WritesAgree == writer.pending = <<>> => travel_calculator = writer.after

\* C13: a current_position() made by a second thread while set_position, stop
\* or start_travel is between two of its field writes returns what it would
\* return in the state before that call or in the state after it, never a
\* value computed from a mix of old and new fields.
C13_NoTornRead ==
    [][ (Race_read /\ writer.pending /= <<>>)
            => \/ reader' = Some(current_position(writer.before, now))
               \/ reader' = Some(current_position(writer.after, now)) ]_vars

\* C14: after stop(), and until the next call that changes the calculator,
\* current_position() is the pinned position at every instant, and a second
\* stop() would leave last_known_position, travel_to_position,
\* position_confirmed and travel_direction as the first left them.
C14_StopIdempotent ==
    last.op = "stop"
        => /\ cur = travel_calculator.last_known_position
           /\ LET again == stop(travel_calculator, now)
              IN  /\ again.last_known_position
                         = travel_calculator.last_known_position
                  /\ again.travel_to_position
                         = travel_calculator.travel_to_position
                  /\ again.position_confirmed
                         = travel_calculator.position_confirmed
                  /\ again.travel_direction
                         = travel_calculator.travel_direction

\* stop() pinned 24 ten seconds into a travel from 0 that began at time 0, and
\* the clock has since reached 30 s or more
C14_Witness ==
    /\ last.op = "stop"
    /\ ~last.was_confirmed
    /\ travel_calculator.last_known_position = Some(24)
    /\ travel_calculator.last_known_position_timestamp = 0
    /\ travel_calculator.travel_time_down = 40
    /\ now >= 30

\* C15: start_travel(target) on a calculator whose last_known_position is
\* unknown does what set_position(target) does: right after the call
\* position_confirmed is true and current_position() is target, at the
\* instant of the call and at every later one.
C15_ColdStart ==
    [][ (travel_calculator.last_known_position = None /\ TC_start_travel)
            => /\ travel_calculator'
                      = set_position(travel_calculator, Val(last'.arg), now)
               /\ travel_calculator'.position_confirmed
               /\ \A t \in now..MaxTime :
                      current_position(travel_calculator', t) = last'.arg ]_vars

\* start_travel(67) was the first call that gave the calculator a position,
\* 20 s or more ago (only a cold start_travel leaves position_confirmed true)
C15_Witness ==
    /\ last.op = "start_travel"
    /\ last.arg = Some(67)
    /\ travel_calculator.position_confirmed
    /\ travel_calculator.travel_direction = STOPPED
    /\ elapsed >= 20

\* the double r is the double nearest to the fraction n / 100, for n > 0:
\* r is positive and differs from n / 100 by at most half a unit in its last
\* place (r.x < 0 for every n / 100 below 2^52)
NearestTo(r, n) ==
    LET r100 == BigMulSmall(r.m, 100)
        n2x == BigShl(BigOfInt(n), -r.x)
        diff == IF BigLess(r100, n2x) THEN BigSub(n2x, r100)
                                      ELSE BigSub(r100, n2x)
    IN  /\ r.sign = 1
        /\ ~BigIsZero(r.m)
        /\ r.x < 0
        /\ ~BigLess(BigOfInt(50), diff)

\* C16: calculate_travel_time(from, to) is 0 when from = to and positive
\* otherwise; it is travel_time_down when to > from, and travel_time_up
\* otherwise, times |to - from| / 100 (as near as a float can be), so that 0
\* to 100 takes exactly travel_time_down and 100 to 0 exactly travel_time_up.
C16_TravelTime ==
    last.op = "calculate_travel_time"
        =>
    LET from_position == last.arg[1]
        to_position == last.arg[2]
        full == IF to_position > from_position
                THEN travel_calculator.travel_time_down
                ELSE travel_calculator.travel_time_up
        r == last.result
    IN  /\ from_position = to_position => BigIsZero(r.m)
        /\ from_position /= to_position
               => NearestTo(r, full * Abs(to_position - from_position))
        /\ (from_position = 0 /\ to_position = 100)
               => r = F64OfInt(travel_calculator.travel_time_down)
        /\ (from_position = 100 /\ to_position = 0)
               => r = F64OfInt(travel_calculator.travel_time_up)

\* the travel time of a part of the way up was computed, with travel times
\* that differ by direction
C16_Witness ==
    /\ last.op = "calculate_travel_time"
    /\ last.arg = <<100, 33>>
    /\ travel_calculator.travel_time_up = 30
    /\ travel_calculator.travel_time_down = 40

\* C17: whenever position_confirmed is true, last_known_position equals
\* travel_to_position.
C17_ConfirmedMeansAtTarget ==
    travel_calculator.position_confirmed
        => travel_calculator.last_known_position
               = travel_calculator.travel_to_position

\* C18: a start_travel(target2) issued while a travel is in flight pins the
\* estimate of that instant as last_known_position with a fresh timestamp, so
\* that current_position() at that instant is what it was just before the
\* call; and from then on the estimate lies between that baseline and target2,
\* at the place (to within the rounding of one unit) that the travel time of
\* the new direction gives.
C18_Supersede ==
    /\ [][ (/\ ~travel_calculator.position_confirmed
            /\ travel_calculator.travel_direction /= STOPPED
            /\ TC_start_travel)
               => /\ travel_calculator'.last_known_position = cur
                  /\ travel_calculator'.last_known_position_timestamp = now
                  /\ travel_calculator'.travel_to_position = last'.arg
                  /\ current_position(travel_calculator', now) = cur ]_vars
    /\ [] ( (/\ last.op = "start_travel"
             /\ ~last.was_confirmed
             /\ ~travel_calculator.position_confirmed
             /\ elapsed * 100 <= NominalTime100)
               =>
            LET o == Val(travel_calculator.last_known_position)
                target == Val(last.arg)
                lo == IF o < target THEN o ELSE target
                hi == IF o < target THEN target ELSE o
                exact == IF o = target THEN o
                         ELSE Trunc(o * NominalTime100
                                        + (target - o) * elapsed * 100,
                                    NominalTime100)
            IN  /\ Val(cur) \in lo..hi
                /\ Abs(Val(cur) - exact) <= 1 )

\* start_travel(0) was called when a travel down from 0 had reached 24, and
\* 10 s later the estimate has come back up from that baseline
C18_Witness ==
    /\ last.op = "start_travel"
    /\ last.arg = Some(0)
    /\ ~last.was_confirmed
    /\ travel_calculator.last_known_position = Some(24)
    /\ travel_calculator.last_known_position_timestamp = 10
    /\ travel_calculator.travel_direction = DIRECTION_UP
    /\ now = 20
    /\ Val(cur) < 24

\* C19: while no position has ever been known, current_position() is unknown
\* (not a number) and stop() changes no field of the calculator.
C19_UnknownStaysUnknown ==
    travel_calculator.last_known_position = None
        => /\ cur = None
           /\ stop(travel_calculator, now) = travel_calculator

\* stop() was called on a calculator that had never known a position, after
\* 20 s or more
C19_Witness ==
    /\ last.op = "stop"
    /\ travel_calculator.last_known_position = None
    /\ now >= 20

\* C20: is_opening and is_closing are never both true.
C20_NotBothWays ==
    ~(is_opening(is_opening_) = Some(TRUE) /\ is_closing(is_closing_) = Some(TRUE))

\* open_cover() was called when the last status had said the cover was moving
\* down (is_closing true)
C20_Witness ==
    /\ last.op = "open_cover"
    /\ elero_state = Some(INFO_MOVING_DOWN)
    /\ is_opening_ = Some(TRUE)
    /\ is_closing_ = Some(FALSE)

====
